---------------------------- MODULE Spec2Model ----------------------------
(***************************************************************************)
(* A model of the response-normalisation layer of mcp-atlassian-server:    *)
(*   - Resources.extractPagingParams        (src/src/utils/mcp-helpers.ts) *)
(*   - Tools.createToolResponse / Tools.wrapWithErrorHandling              *)
(*   - updatePageHandler and the registered updatePage tool callback       *)
(*   - the agile operations of the network layer   (src/unnamed/part_000)  *)
(*   - Config.getAtlassianConfigFromEnv / Config.getConfigFromContextOrEnv *)
(*   - Resources.createStandardResource                                    *)
(*                                                                         *)
(* Specifications: Spec (wrapped handlers, NCalls calls in flight),        *)
(* SpecOps (one call of a domain operation against the remote), SpecPage   *)
(* (NCalls updatePage calls against one page), SpecPaging, SpecConfig and  *)
(* SpecResource (the pure functions applied to their inputs).              *)
(*                                                                         *)
(* JavaScript values are tagged records.  A number is kept in tenths (the  *)
(* number 2.5 is [t |-> "num", tenths |-> 25]) so that fractional numbers  *)
(* exist and parseInt has something to truncate.  A string whose           *)
(* characters are read by the code (the input of parseInt) is a sequence   *)
(* of one-character strings, tag "chars"; a string that the code only      *)
(* copies or concatenates (a message) is a TLA+ string, tag "str".         *)
(***************************************************************************)
EXTENDS Integers, Sequences, FiniteSets, TLC

VARIABLES
    pg,        \* the pagination run: input, defaults, results of extractPagingParams
    calls,     \* the invocations: tool callbacks, lookups, resource builders
    env,       \* process.env, as far as the configuration lookup reads it
    remote     \* the state of the remote Atlassian site

vars == <<pg, calls, env, remote>>

(***************************************************************************)
(* JavaScript values                                                       *)
(***************************************************************************)
Undefined == [t |-> "undefined"]
Null      == [t |-> "null"]
NaN       == [t |-> "nan"]
Bool(b)   == [t |-> "bool", b |-> b]
Num(i)    == [t |-> "num", tenths |-> 10 * i]
Tenths(x) == [t |-> "num", tenths |-> x]
Chars(s)  == [t |-> "chars", s |-> s]
Str(s)    == [t |-> "str", v |-> s]
Arr(els)  == [t |-> "arr", els |-> els]

\* ToBoolean: what `if (v)` and `v && ...` test.
Truthy(v) ==
    CASE v.t = "undefined" -> FALSE
      [] v.t = "null"      -> FALSE
      [] v.t = "nan"       -> FALSE
      [] v.t = "bool"      -> v.b
      [] v.t = "num"       -> v.tenths # 0
      [] v.t = "chars"     -> v.s # <<>>
      [] v.t = "str"       -> v.v # ""
      [] OTHER             -> TRUE

IsInteger(v) == v.t = "num" /\ v.tenths % 10 = 0

DigitChars == <<"0", "1", "2", "3", "4", "5", "6", "7", "8", "9">>
IsDigit(c) == \E d \in 1..10 : DigitChars[d] = c
DigitVal(c) == (CHOOSE d \in 1..10 : DigitChars[d] = c) - 1
\* StrWhiteSpaceChar, as far as the inputs of the model go.
IsWhiteSpace(c) == c = " "

RECURSIVE NatToChars(_)
NatToChars(n) ==
    IF n < 10 THEN <<DigitChars[n + 1]>>
    ELSE NatToChars(n \div 10) \o <<DigitChars[(n % 10) + 1]>>

\* Number::toString for a number kept in tenths: "-3", "0", "2.5", "-0.5".
NumberToChars(x) ==
    LET a == IF x < 0 THEN -x ELSE x
        whole == NatToChars(a \div 10)
        frac == IF a % 10 = 0 THEN <<>> ELSE <<".", DigitChars[(a % 10) + 1]>>
    IN  (IF x < 0 THEN <<"-">> ELSE <<>>) \o whole \o frac

\* ToString of array elements joined with ","; null and undefined elements
\* give the empty string.  Elements of the model's arrays are scalars.
RECURSIVE ToChars(_)
RECURSIVE JoinChars(_)
JoinChars(els) ==
    IF els = <<>> THEN <<>>
    ELSE (IF els[1].t \in {"undefined", "null"} THEN <<>> ELSE ToChars(els[1]))
         \o (IF Len(els) > 1 THEN <<",">> \o JoinChars(Tail(els)) ELSE <<>>)

\* ToString, as parseInt applies it to its first argument.
ToChars(v) ==
    CASE v.t = "undefined" -> <<"u", "n", "d", "e", "f", "i", "n", "e", "d">>
      [] v.t = "null"      -> <<"n", "u", "l", "l">>
      [] v.t = "nan"       -> <<"N", "a", "N">>
      [] v.t = "bool"      -> IF v.b THEN <<"t", "r", "u", "e">>
                              ELSE <<"f", "a", "l", "s", "e">>
      [] v.t = "num"       -> NumberToChars(v.tenths)
      [] v.t = "chars"     -> v.s
      [] v.t = "arr"       -> JoinChars(v.els)
      [] OTHER             -> <<"[", "o", "b", "j", "e", "c", "t", " ",
                                "O", "b", "j", "e", "c", "t", "]">>

RECURSIVE SkipWhiteSpace(_)
SkipWhiteSpace(s) ==
    IF s # <<>> /\ IsWhiteSpace(s[1]) THEN SkipWhiteSpace(Tail(s)) ELSE s

\* The value of the longest prefix of digits of s, read after acc; any
\* tells whether a digit was read at all.
RECURSIVE ReadDigits(_, _, _)
ReadDigits(s, acc, any) ==
    IF s # <<>> /\ IsDigit(s[1])
    THEN ReadDigits(Tail(s), 10 * acc + DigitVal(s[1]), TRUE)
    ELSE [any |-> any, val |-> acc]

\* parseInt(v, 10): ToString, skip leading white space, an optional sign,
\* then the longest prefix of decimal digits; NaN when there is none.
ParseInt(v) ==
    LET s == SkipWhiteSpace(ToChars(v))
        neg == s # <<>> /\ s[1] = "-"
        signed == s # <<>> /\ s[1] \in {"-", "+"}
        r == ReadDigits(IF signed THEN Tail(s) ELSE s, 0, FALSE)
    IN  IF r.any THEN Num(IF neg THEN -r.val ELSE r.val) ELSE NaN

IsNaN(v) == v.t = "nan"

(***************************************************************************)
(* Resources.extractPagingParams                                           *)
(***************************************************************************)
Obj(limit, offset) == [t |-> "obj", limit |-> limit, offset |-> offset]

\* params.limit / params.offset: a property read of a primitive, or of an
\* object that lacks the property, gives undefined.
PropLimit(params)  == IF params.t = "obj" THEN params.limit ELSE Undefined
PropOffset(params) == IF params.t = "obj" THEN params.offset ELSE Undefined

\* Array.isArray(p) ? p[0] : p
FirstIfArray(p) ==
    IF p.t = "arr" THEN (IF p.els = <<>> THEN Undefined ELSE p.els[1]) ELSE p

\* a > b on numbers; every comparison with NaN is false.
Greater(a, b)   == a.t = "num" /\ b.t = "num" /\ a.tenths > b.tenths
GreaterEq(a, b) == a.t = "num" /\ b.t = "num" /\ a.tenths >= b.tenths

\* ExtractLimit without the test parsedLimit > 0.
ExtractLimitNoRangeTest(params, defaultLimit) ==
    IF Truthy(params) /\ Truthy(PropLimit(params))
    THEN LET parsedLimit == ParseInt(FirstIfArray(PropLimit(params)))
         IN  IF ~IsNaN(parsedLimit) THEN parsedLimit ELSE defaultLimit
    ELSE defaultLimit

ExtractLimit(params, defaultLimit) ==
    IF Truthy(params) /\ Truthy(PropLimit(params))
    THEN LET parsedLimit == ParseInt(FirstIfArray(PropLimit(params)))
         IN  IF ~IsNaN(parsedLimit) /\ Greater(parsedLimit, Num(0))
             THEN parsedLimit ELSE defaultLimit
    ELSE defaultLimit

ExtractOffset(params, defaultOffset) ==
    IF Truthy(params) /\ Truthy(PropOffset(params))
    THEN LET parsedOffset == ParseInt(FirstIfArray(PropOffset(params)))
         IN  IF ~IsNaN(parsedOffset) /\ GreaterEq(parsedOffset, Num(0))
             THEN parsedOffset ELSE defaultOffset
    ELSE defaultOffset

extractPagingParams(params, defaultLimit, defaultOffset) ==
    Obj(ExtractLimit(params, defaultLimit), ExtractOffset(params, defaultOffset))

(***************************************************************************)
(* The inputs of the pagination runs                                       *)
(***************************************************************************)
MaxStrLen == 2
DeclaredDefaultLimit == 20

Alphabet == {"-", "0", "5", "a", " "}
InputStrings == UNION {[1..n -> Alphabet] : n \in 0..MaxStrLen}
\* "+7" and "2.5" are read too: a sign, and a fraction parseInt truncates.
ExtraStrings == {<<"+", "7">>, <<"2", ".", "5">>}
InputNumbers == {Tenths(x) : x \in {-30, -25, 0, 5, 25, 50, 70}} \cup {NaN}
Scalars ==
    {Chars(s) : s \in InputStrings \cup ExtraStrings} \cup InputNumbers
        \cup {Null, Bool(TRUE), Bool(FALSE)}
\* Arrays as multi-valued query parameters are delivered: empty, one
\* element, or two elements of which the code reads the first.
Arrays ==
    {Arr(<<>>)} \cup {Arr(<<x>>) : x \in Scalars}
        \cup {Arr(<<x, Num(9)>>) : x \in {Chars(<<"5">>), Num(0), Chars(<<"a">>)}}
ParamValues == {Undefined} \cup Scalars \cup Arrays
\* limit and offset are read by separate code: each value of one is paired
\* with a few values of the other.
FewValues ==
    {Undefined, Num(0), Num(5), Chars(<<"5">>), Chars(<<"-", "3">>),
     Arr(<<Chars(<<"5">>)>>), Chars(<<"0">>)}
ParamObjects ==
    {Obj(l, o) : l \in ParamValues, o \in FewValues}
        \cup {Obj(l, o) : l \in FewValues, o \in ParamValues}
RawParams == {Undefined, Null, Num(7), Bool(TRUE)} \cup ParamObjects

\* The defaults a caller passes: the declared ones (20, 0), other
\* well-formed ones, and ill-formed ones (zero, negative, fractional, NaN).
DefaultLimits  == {Num(DeclaredDefaultLimit), Num(5), Num(0), Num(-1), Tenths(25), NaN}
DefaultOffsets == {Num(0), Num(10), Num(-2), Tenths(5)}

NoResult == [t |-> "none"]

PgInit ==
    pg \in {[pc |-> "start", params |-> p, defaultLimit |-> dl,
             defaultOffset |-> dof, first |-> NoResult, second |-> NoResult] :
                p \in RawParams, dl \in DefaultLimits, dof \in DefaultOffsets}
PgQuiet ==
    pg = [pc |-> "off", params |-> Undefined, defaultLimit |-> Num(DeclaredDefaultLimit),
          defaultOffset |-> Num(0), first |-> NoResult, second |-> NoResult]

\* A resource handler calls extractPagingParams(params, dl, do).
ExtractPaging ==
    /\ pg.pc = "start"
    /\ pg' = [pg EXCEPT !.pc = "once",
                 !.first = extractPagingParams(pg.params, pg.defaultLimit,
                                               pg.defaultOffset)]
    /\ UNCHANGED <<calls, env, remote>>

\* The result is fed back in, with the same defaults.
ExtractPagingAgain ==
    /\ pg.pc = "once"
    /\ pg' = [pg EXCEPT !.pc = "twice",
                 !.second = extractPagingParams(pg.first, pg.defaultLimit,
                                                pg.defaultOffset)]
    /\ UNCHANGED <<calls, env, remote>>

(***************************************************************************)
(* Errors, messages and JSON                                               *)
(***************************************************************************)
\* new Error(message) and its subclasses thrown by the runtime
\* (SyntaxError of response.json(), TypeError of fetch or a property read);
\* message is a string value, Str("...").
ErrorObj(name, message) == [t |-> "error", name |-> name, message |-> message]
\* new ApiError(type, message, statusCode, code): the class lives in
\* utils/error-handler.js; its fields are the ones the updatePage callback
\* reads (message, code, statusCode, type).
ApiError(type, message, statusCode, code) ==
    [t |-> "apierror", type |-> type, message |-> message,
     statusCode |-> statusCode, code |-> code]
\* A plain JSON object, known by what it stands for.
PlainObj(id) == [t |-> "object", id |-> id]

IsApiError(v) == v.t = "apierror"         \* error instanceof ApiError
IsError(v) == v.t \in {"error", "apierror"}  \* error instanceof Error

DigitStrs == <<"0", "1", "2", "3", "4", "5", "6", "7", "8", "9">>
RECURSIVE NatToStr(_)
NatToStr(n) ==
    IF n < 10 THEN DigitStrs[n + 1]
    ELSE NatToStr(n \div 10) \o DigitStrs[(n % 10) + 1]

\* String(v) and `${v}` for the values the model throws and interpolates.
StringOf(v) ==
    CASE v.t = "str"       -> v.v
      [] v.t = "undefined" -> "undefined"
      [] v.t = "null"      -> "null"
      [] v.t = "nan"       -> "NaN"
      [] v.t = "bool"      -> IF v.b THEN "true" ELSE "false"
      [] v.t = "num"       ->
            LET a == IF v.tenths < 0 THEN -v.tenths ELSE v.tenths
            IN  (IF v.tenths < 0 THEN "-" ELSE "") \o NatToStr(a \div 10)
                    \o (IF a % 10 = 0 THEN "" ELSE "." \o DigitStrs[(a % 10) + 1])
      [] v.t = "error"     -> v.name \o ": " \o v.message.v
      [] v.t = "apierror"  -> "Error: " \o v.message.v
      [] OTHER             -> "[object Object]"

\* error instanceof Error ? error.message : String(error)
MessageOf(error) ==
    IF IsError(error) THEN error.message ELSE Str(StringOf(error))

EmptyObject == [k \in {} |-> Undefined]
\* ...(v && { key: v }): the spread of a falsy value adds no property.
SpreadIf(v, key) == IF Truthy(v) THEN key :> v ELSE EmptyObject

\* JSON.stringify of an object literal: a property whose value is undefined
\* is left out, NaN is written as null; the text is kept as the JSON
\* document it denotes.
JSONStringify(obj) ==
    LET kept == {k \in DOMAIN obj : obj[k].t # "undefined"}
    IN  [k \in kept |-> IF obj[k].t = "nan" THEN Null ELSE obj[k]]

(***************************************************************************)
(* Tools.createToolResponse, Tools.wrapWithErrorHandling                   *)
(***************************************************************************)
\* createToolResponse with the success flag written as the constant true.
createToolResponseAlwaysTrue(success, message, data) ==
    LET response == ("success" :> Bool(TRUE)) @@ SpreadIf(message, "message")
                        @@ SpreadIf(data, "data")
    IN  [contents |-> <<[mimeType |-> "application/json",
                         text |-> JSONStringify(response)]>>]

createToolResponse(success, message, data) ==
    LET response == ("success" :> Bool(success)) @@ SpreadIf(message, "message")
                        @@ SpreadIf(data, "data")
    IN  [contents |-> <<[mimeType |-> "application/json",
                         text |-> JSONStringify(response)]>>]

\* What a callback's promise settles with.
NoOutcome    == [k |-> "none"]
Fulfilled(v) == [k |-> "fulfilled", v |-> v]
Rejected(v)  == [k |-> "rejected", v |-> v]

\* WrapperSettle whose catch block handles an ApiError only and throws
\* anything else again.
WrapperSettleRethrow(toolName, outcome) ==
    IF outcome.k = "fulfilled"
    THEN Fulfilled(createToolResponse(TRUE,
                       Str(toolName \o " executed successfully"), outcome.v))
    ELSE IF IsApiError(outcome.v)
         THEN Fulfilled(createToolResponse(FALSE, outcome.v.message, Undefined))
         ELSE Rejected(outcome.v)

\* The continuation of `await handler(params)` in the wrapper: the try
\* branch on fulfilment, the catch branch on rejection.
WrapperSettle(toolName, outcome) ==
    IF outcome.k = "fulfilled"
    THEN Fulfilled(createToolResponse(TRUE,
                       Str(toolName \o " executed successfully"), outcome.v))
    ELSE LET error == outcome.v
             errorMessage == IF IsApiError(error) THEN error.message
                             ELSE MessageOf(error)
         IN  Fulfilled(createToolResponse(FALSE, errorMessage, Undefined))

(***************************************************************************)
(* Config.getAtlassianConfigFromEnv                                        *)
(***************************************************************************)
\* The site names of the model, in the two documented forms and a
\* self-hosted one, and which of them contain ".atlassian.net".
SiteNames == {"example.atlassian.net", "https://example.atlassian.net",
              "https://jira.example.com"}
IncludesAtlassianNet(site) ==
    site \in {"example.atlassian.net", "https://example.atlassian.net"}

AtlassianConfig(baseUrl, email, apiToken) ==
    [t |-> "config", baseUrl |-> baseUrl, email |-> email, apiToken |-> apiToken]

MissingCredentials ==
    ErrorObj("Error", Str("Missing Atlassian credentials in environment variables"))

\* The lookup returns a configuration or throws: Fulfilled / Rejected.  An
\* unset variable reads as '' (process.env.X || '').
getAtlassianConfigFromEnv(e) ==
    IF e.ATLASSIAN_SITE_NAME = "" \/ e.ATLASSIAN_USER_EMAIL = ""
           \/ e.ATLASSIAN_API_TOKEN = ""
    THEN Rejected(MissingCredentials)
    ELSE Fulfilled(AtlassianConfig(
             IF IncludesAtlassianNet(e.ATLASSIAN_SITE_NAME)
             THEN "https://" \o e.ATLASSIAN_SITE_NAME
             ELSE e.ATLASSIAN_SITE_NAME,
             e.ATLASSIAN_USER_EMAIL, e.ATLASSIAN_API_TOKEN))

(***************************************************************************)
(* The remote site and its HTTP responses                                  *)
(***************************************************************************)
MaxVersion == 3

ErrStatuses == {400, 401, 403, 404, 409, 418, 429, 500, 503}
IsOk(status) == status >= 200 /\ status <= 299       \* response.ok

EmptyBody    == [kind |-> "empty"]
TextBody     == [kind |-> "text"]                     \* not JSON
JsonBody(v)  == [kind |-> "json", value |-> v]
Response(status, body, contentLength) ==
    [status |-> status, body |-> body, contentLength |-> contentLength]

\* The content-length header: '0' or absent (null) with an empty body, the
\* length or absent with any other.
LengthsOf(body) ==
    IF body.kind = "empty" THEN {Str("0"), Null} ELSE {Str("17"), Null}

\* await response.text() of an error response
ResponseText(resp) == IF resp.body.kind = "empty" THEN "" ELSE "err"

\* The page as GET /api/v2/pages/{id} returns it, and the malformed
\* documents a proxy or an API change may put in its place.
PageData(version, title) ==
    [t |-> "object", id |-> "page", version |-> version, title |-> title]
BodyData(value) == [t |-> "object", id |-> "body", value |-> value]
IssueJson == PlainObj("jiraJson")

Request(kind, version) == [kind |-> kind, version |-> version]
NoRequest == Request("none", 0)

\* The JSON documents the remote may answer a request with on success.
JsonOf(request, r) ==
    CASE request.kind = "getPage" ->
            {PageData(Num(r.pageVersion), Str("Title")),
             PageData(Num(r.pageVersion), Undefined),
             PageData(Undefined, Str("Title"))}
      [] request.kind = "getBody" -> {BodyData(Str("<p>old</p>")), BodyData(Str(""))}
      [] request.kind = "putPage" -> {PageData(Num(request.version), Str("Title"))}
      [] OTHER -> {IssueJson}

\* Whether the remote accepts the request: a page update must carry the
\* successor of the page's version, anything else is a conflict.
Accepts(request, r) ==
    request.kind = "putPage" =>
        request.version = r.pageVersion + 1 /\ request.version <= MaxVersion

\* The responses the remote may give: any error status, with an error
\* text; an OK status with an empty, JSON or non-JSON body when it accepts
\* the request.
ResponsesTo(request, r) ==
    {Response(st, TextBody, Null) : st \in ErrStatuses}
      \cup (IF Accepts(request, r)
            THEN {Response(204, EmptyBody, l) : l \in LengthsOf(EmptyBody)}
                   \cup UNION {{Response(200, b, l) : l \in LengthsOf(b)} :
                          b \in {EmptyBody, TextBody}
                                  \cup {JsonBody(j) : j \in JsonOf(request, r)}}
            ELSE {})

\* What an accepted request changes on the remote.
RemoteEffect(request, resp, r) ==
    IF ~IsOk(resp.status) THEN r
    ELSE CASE request.kind = "sprintRemove" ->
                [r EXCEPT !.issueIn = IF @ = "source" THEN "backlog" ELSE @]
           [] request.kind = "sprintAdd" -> [r EXCEPT !.issueIn = "target"]
           [] request.kind = "backlogAdd" -> [r EXCEPT !.issueIn = "backlog"]
           [] request.kind = "putPage" -> [r EXCEPT !.pageVersion = request.version]
           [] OTHER -> r

(***************************************************************************)
(* The agile operations of the network layer                               *)
(*                                                                         *)
(* An operation runs from one await of fetch to the next.  A step takes    *)
(* the response to the request in flight and either sends the next request *)
(* or settles the operation's promise.                                     *)
(***************************************************************************)
Send(request, version) ==
    [act |-> "send", request |-> request, outcome |-> NoOutcome, version |-> version]
Settle(outcome) ==
    [act |-> "settle", request |-> NoRequest, outcome |-> outcome, version |-> 0]

\* throw new Error(`Jira API error: ${response.status} ${responseText}`)
JiraApiError(resp) ==
    ErrorObj("Error", Str("Jira API error: " \o NatToStr(resp.status) \o " "
                              \o ResponseText(resp)))

\* await response.json(): the parsed document, or a SyntaxError when the
\* body is empty or is not JSON.
ResponseJson(resp) ==
    CASE resp.body.kind = "json"  -> Fulfilled(resp.body.value)
      [] resp.body.kind = "empty" ->
            Rejected(ErrorObj("SyntaxError", Str("Unexpected end of JSON input")))
      [] OTHER ->
            Rejected(ErrorObj("SyntaxError", Str("Unexpected token in JSON")))

SuccessMarker == PlainObj("{success:true}")

\* The tail shared by the operations that tolerate an empty response:
\* content-length '0' or status 204, an empty text, or a text that
\* JSON.parse rejects all give { success: true }.
LenientResult(resp) ==
    IF ~IsOk(resp.status) THEN Rejected(JiraApiError(resp))
    ELSE IF resp.contentLength = Str("0") \/ resp.status = 204
         THEN Fulfilled(SuccessMarker)
    ELSE IF resp.body.kind = "empty" THEN Fulfilled(SuccessMarker)
    ELSE IF resp.body.kind = "json" THEN Fulfilled(resp.body.value)
    ELSE Fulfilled(SuccessMarker)

\* The tail of the operations that return await response.json().
StrictResult(resp) ==
    IF ~IsOk(resp.status) THEN Rejected(JiraApiError(resp)) ELSE ResponseJson(resp)

addIssuesToBacklog(request, resp) == Settle(LenientResult(resp))
addIssueToSprint(request, resp)   == Settle(LenientResult(resp))
rankBacklogIssues(request, resp)  == Settle(LenientResult(resp))
addIssueToBoard(request, resp)    == Settle(LenientResult(resp))
startSprint(request, resp)        == Settle(StrictResult(resp))
closeSprint(request, resp)        == Settle(StrictResult(resp))
createSprint(request, resp)       == Settle(StrictResult(resp))

moveIssuesBetweenSprints(request, resp) ==
    IF request.kind = "sprintRemove"
    THEN IF ~IsOk(resp.status) THEN Settle(Rejected(JiraApiError(resp)))
         ELSE Send(Request("sprintAdd", 0), 0)
    ELSE Settle(StrictResult(resp))

configureBoardColumns(request, resp) ==
    IF request.kind = "getBoardConfig"
    THEN IF ~IsOk(resp.status) THEN Settle(Rejected(JiraApiError(resp)))
         ELSE IF ResponseJson(resp).k = "rejected" THEN Settle(ResponseJson(resp))
         ELSE Send(Request("putBoardConfig", 0), 0)
    ELSE Settle(StrictResult(resp))

AgileOps == {"addIssuesToBacklog", "addIssueToSprint", "rankBacklogIssues",
             "addIssueToBoard", "startSprint", "closeSprint", "createSprint",
             "moveIssuesBetweenSprints", "configureBoardColumns"}

\* The request an operation sends first.
FirstRequest(op) ==
    CASE op \in {"addIssuesToBacklog", "addIssueToBoard"} -> Request("backlogAdd", 0)
      [] op = "addIssueToSprint"         -> Request("sprintAdd", 0)
      [] op = "rankBacklogIssues"        -> Request("rank", 0)
      [] op \in {"startSprint", "closeSprint"} -> Request("sprintUpdate", 0)
      [] op = "createSprint"             -> Request("sprintCreate", 0)
      [] op = "moveIssuesBetweenSprints" -> Request("sprintRemove", 0)
      [] op = "configureBoardColumns"    -> Request("getBoardConfig", 0)
      [] OTHER                           -> Request("getPage", 0)

\* A rejected fetch (the network is down): every agile operation logs the
\* error and throws it again.
FetchFailed == ErrorObj("TypeError", Str("fetch failed"))

(***************************************************************************)
(* updatePageHandler and the registered updatePage callback                *)
(***************************************************************************)
PageId == "123"

\* The fixed rule of the error taxonomy, in the names of ApiErrorType.
ApiErrorTypeOf(status) ==
    CASE status = 400 -> "VALIDATION_ERROR"
      [] status = 401 -> "AUTHENTICATION_ERROR"
      [] status = 403 -> "AUTHORIZATION_ERROR"
      [] status = 404 -> "NOT_FOUND"
      [] status = 409 -> "CONFLICT"
      [] status = 429 -> "RATE_LIMIT"
      [] status >= 500 /\ status <= 599 -> "SERVER_ERROR"
      [] OTHER -> "UNKNOWN_ERROR"

\* updateConfluencePageV2 (utils/confluence-tool-api.js): PUT the page; an
\* error status is raised as the ApiError of its kind, an OK response
\* gives the updated page.
updateConfluencePageV2(resp) ==
    IF ~IsOk(resp.status)
    THEN Rejected(ApiError(ApiErrorTypeOf(resp.status),
                           Str("Confluence API error: " \o NatToStr(resp.status)),
                           Num(resp.status), Undefined))
    ELSE ResponseJson(resp)

UpdatePageResult(data) ==
    [t |-> "object", id |-> "updateResult", pageId |-> PageId, title |-> data.title,
     version |-> data.version, webui |-> "/pages/123", success |-> Bool(TRUE),
     message |-> Str("Successfully updated page")]

\* The catch block: an ApiError is thrown again, anything else becomes an
\* ApiError of type SERVER_ERROR with status 500.
UpdatePageCatch(outcome) ==
    IF outcome.k = "rejected" /\ ~IsApiError(outcome.v)
    THEN Rejected(ApiError("SERVER_ERROR",
                           Str("Failed to update page: " \o MessageOf(outcome.v).v),
                           Num(500), Undefined))
    ELSE outcome

\* The try block, from the response to the request in flight up to the
\* next request or the end.  version is the local `version`.
UpdatePageTry(params, version, request, resp) ==
    CASE request.kind = "getPage" ->
            IF ~IsOk(resp.status)
            THEN Settle(Rejected(ErrorObj("Error",
                            Str("Failed to get page info: " \o PageId))))
            ELSE IF ResponseJson(resp).k = "rejected" THEN Settle(ResponseJson(resp))
            ELSE LET pageData == resp.body.value
                     title == IF params.title.t \in {"undefined", "null"}
                              THEN pageData.title ELSE params.title
                 IN  IF pageData.version.t = "undefined"
                     THEN Settle(Rejected(ErrorObj("TypeError",
                             Str("Cannot read properties of undefined (reading 'number')"))))
                     ELSE IF ~Truthy(title)
                     THEN Settle(Rejected(ErrorObj("Error",
                                     Str("Missing title for page update"))))
                     ELSE IF ~Truthy(params.content)
                     THEN Send(Request("getBody", 0), (pageData.version.tenths \div 10) + 1)
                     ELSE Send(Request("putPage", (pageData.version.tenths \div 10) + 1),
                               (pageData.version.tenths \div 10) + 1)
      [] request.kind = "getBody" ->
            IF ~IsOk(resp.status)
            THEN Settle(Rejected(ErrorObj("Error",
                            Str("Failed to get page body: " \o PageId))))
            ELSE IF ResponseJson(resp).k = "rejected" THEN Settle(ResponseJson(resp))
            ELSE IF ~Truthy(resp.body.value.value)
            THEN Settle(Rejected(ErrorObj("Error",
                            Str("Missing content for page update"))))
            ELSE Send(Request("putPage", version), version)
      [] OTHER ->
            LET data == updateConfluencePageV2(resp)
            IN  IF data.k = "rejected" THEN Settle(data)
                ELSE Settle(Fulfilled(UpdatePageResult(data.v)))

updatePageHandler(params, version, request, resp) ==
    LET step == UpdatePageTry(params, version, request, resp)
    IN  IF step.act = "settle" THEN Settle(UpdatePageCatch(step.outcome)) ELSE step

\* One step of a domain operation.
DomainStep(op, params, version, request, resp) ==
    CASE op = "addIssuesToBacklog"       -> addIssuesToBacklog(request, resp)
      [] op = "addIssueToSprint"         -> addIssueToSprint(request, resp)
      [] op = "rankBacklogIssues"        -> rankBacklogIssues(request, resp)
      [] op = "addIssueToBoard"          -> addIssueToBoard(request, resp)
      [] op = "startSprint"              -> startSprint(request, resp)
      [] op = "closeSprint"              -> closeSprint(request, resp)
      [] op = "createSprint"             -> createSprint(request, resp)
      [] op = "moveIssuesBetweenSprints" -> moveIssuesBetweenSprints(request, resp)
      [] op = "configureBoardColumns"    -> configureBoardColumns(request, resp)
      [] OTHER -> updatePageHandler(params, version, request, resp)

\* The operation's answer to a rejected fetch.
DomainFetchFailed(op) ==
    IF op \in AgileOps THEN Rejected(FetchFailed)
    ELSE UpdatePageCatch(Rejected(FetchFailed))

TextContent(text) == [type |-> "text", text |-> text]

\* context?.atlassianConfig ?? Config.getAtlassianConfigFromEnv()
UpdatePageConfig(contextConfig, e) ==
    IF contextConfig.t \in {"undefined", "null"}
    THEN getAtlassianConfigFromEnv(e) ELSE Fulfilled(contextConfig)

InvalidConfigResponse ==
    [content |-> <<TextContent(Str("Invalid or missing Atlassian configuration"))>>,
     isError |-> TRUE]

\* The callback after updatePageHandler has settled (or the configuration
\* lookup has thrown): the success response, or one of the two catch
\* branches.
UpdatePageCallback(config, outcome) ==
    IF outcome.k = "fulfilled"
    THEN LET result == outcome.v
         IN  [content |-> <<TextContent(JSONStringify(
                   [success |-> Bool(TRUE), message |-> result.message,
                    id |-> Str(result.pageId), title |-> result.title,
                    version |-> result.version,
                    url |-> Str(config.baseUrl \o "/wiki" \o result.webui)]))>>]
    ELSE LET error == outcome.v
         IN  IF IsApiError(error)
             THEN [content |-> <<TextContent(JSONStringify(
                       [success |-> Bool(FALSE), message |-> error.message,
                        code |-> error.code, statusCode |-> error.statusCode,
                        type |-> Str(error.type)]))>>,
                   isError |-> TRUE]
             ELSE [content |-> <<TextContent(JSONStringify(
                       [success |-> Bool(FALSE),
                        message |-> Str("Error while updating page: "
                                            \o MessageOf(error).v)]))>>,
                   isError |-> TRUE]

(***************************************************************************)
(* Resources.createStandardResource                                        *)
(***************************************************************************)
\* createStandardMetadata (schemas/common.js): the Standard Metadata of a
\* page of a list resource.  next is present iff hasMore, previous iff
\* offset > 0, uiUrl iff given.
createStandardMetadata(totalCount, limit, offset, uri, uiUrl) ==
    LET hasMore == offset + limit < totalCount
        previous == IF offset - limit < 0 THEN 0 ELSE offset - limit
    IN  ("t" :> "object") @@ ("total" :> Num(totalCount)) @@ ("limit" :> Num(limit))
          @@ ("offset" :> Num(offset)) @@ ("uri" :> Str(uri))
          @@ ("hasMore" :> Bool(hasMore))
          @@ (IF hasMore
              THEN "next" :> Str(uri \o "?offset=" \o NatToStr(offset + limit))
              ELSE EmptyObject)
          @@ (IF offset > 0
              THEN "previous" :> Str(uri \o "?offset=" \o NatToStr(previous))
              ELSE EmptyObject)
          @@ (IF uiUrl # Undefined THEN "uiUrl" :> uiUrl ELSE EmptyObject)

\* createJsonResponse (utils/mcp-core.js): the document as JSON text in a
\* contents array, declared application/json.
createJsonResponse(uri, data) ==
    [contents |-> <<[uri |-> uri, mimeType |-> "application/json",
                     text |-> JSONStringify(data)]>>]

\* responseData = { metadata }; responseData[dataKey] = data.  An
\* assignment to the key __proto__ sets the object's prototype and adds no
\* property of its own; to any other key it adds or replaces the property.
createStandardResource(uri, data, dataKey, schema, totalCount, limit, offset, uiUrl) ==
    LET metadata == createStandardMetadata(totalCount, limit, offset, uri, uiUrl)
        responseData == "metadata" :> metadata
        assigned == IF dataKey = "__proto__" THEN responseData
                    ELSE (dataKey :> data) @@ responseData
    IN  createJsonResponse(uri, assigned)

\* The arguments resource handlers may pass.
DataKeys   == {"issues", "pages", "metadata", "__proto__"}
ItemLists  == {Arr(<<>>), Arr(<<IssueJson>>)}
Totals     == {0, 5, 100}
Limits     == {5, 20}
Offsets    == {0, 20, 80}
UiUrls     == {Undefined, Str("https://example.atlassian.net/browse")}
ResourceUri == "jira://issues"

ResourceArgs(data, dataKey, totalCount, limit, offset, uiUrl) ==
    [t |-> "object", id |-> "resourceArgs", data |-> data, dataKey |-> dataKey,
     totalCount |-> totalCount, limit |-> limit, offset |-> offset, uiUrl |-> uiUrl]

(***************************************************************************)
(* The invocations: the transport calls a registered callback, the         *)
(* callback invokes its domain function, the domain function talks to the  *)
(* remote, settles, and the callback returns a response.                   *)
(***************************************************************************)
NCalls == 2
CallIds == 1..NCalls

\* What a handler passed to wrapWithErrorHandling may resolve with: any
\* JSON value, the falsy ones included.
HandlerResults ==
    {Undefined, Null, Bool(FALSE), Bool(TRUE), Num(0), Num(7), Str(""), Str("ok"),
     SuccessMarker, IssueJson}
\* What it may reject with or throw: Domain Errors with and without a status
\* code and a machine code, ordinary Errors, and values that are no Error.
HandlerErrors ==
    {ApiError("NOT_FOUND", Str("Issue not found"), Num(404), Str("ISSUE_NOT_FOUND")),
     ApiError("VALIDATION_ERROR", Str("Missing field"), Undefined, Undefined),
     ApiError("UNKNOWN_ERROR", Str(""), Undefined, Undefined),
     ErrorObj("Error", Str("boom")), ErrorObj("Error", Str("")),
     ErrorObj("Error", Str("Jira API error: 404 err")), FetchFailed,
     Str("boom"), Str(""), Null, Undefined, Num(0), Num(42), PlainObj("thrown")}
HandlerOutcomes ==
    {Fulfilled(v) : v \in HandlerResults} \cup {Rejected(v) : v \in HandlerErrors}

UpdatePageParams(title, content, version) ==
    [t |-> "object", id |-> "updateParams", title |-> title, content |-> content,
     version |-> version]
UpdatePageInputs ==
    {UpdatePageParams(ti, co, Num(v)) :
        ti \in {Undefined, Str("New title")}, co \in {Undefined, Str("<p>new</p>")},
        v \in 1..MaxVersion}

ContextConfig == AtlassianConfig("https://ctx.atlassian.net", "ctx@example.com", "ctx-token")
\* context?.atlassianConfig: absent, a configuration, or a falsy value
\* that is not nullish.
ContextConfigs == {Undefined, ContextConfig, Str("")}

Env(site, email, token) ==
    [ATLASSIAN_SITE_NAME |-> site, ATLASSIAN_USER_EMAIL |-> email,
     ATLASSIAN_API_TOKEN |-> token]
CompleteEnv == Env("example.atlassian.net", "user@example.com", "token")

\* The states of process.env: each variable set or unset, the site name in
\* any of its forms.
Envs ==
    {Env(site, email, token) :
        site \in SiteNames \cup {""}, email \in {"", "user@example.com"},
        token \in {"", "token"}}

\* The `context` argument (typed any): absent, or an object whose
\* atlassianConfig is absent, falsy, complete, or lacks a field ('' stands
\* for an empty or absent field).
Context(atlassianConfig) ==
    [t |-> "object", id |-> "context", atlassianConfig |-> atlassianConfig]
Contexts ==
    {Undefined, Null}
      \cup {Context(v) : v \in
               {Undefined, Null, Str(""), ContextConfig,
                AtlassianConfig("", "ctx@example.com", "ctx-token"),
                AtlassianConfig("https://ctx.atlassian.net", "", "ctx-token"),
                AtlassianConfig("https://ctx.atlassian.net", "ctx@example.com", "")}}

\* context?.atlassianConfig
ContextConfigOf(context) ==
    IF context.t \in {"undefined", "null"} THEN Undefined ELSE context.atlassianConfig

\* The context's configuration when it is truthy, as it is; the
\* environment's otherwise.
getConfigFromContextOrEnv(context, e) ==
    IF Truthy(ContextConfigOf(context))
    THEN Fulfilled(ContextConfigOf(context))
    ELSE getAtlassianConfigFromEnv(e)

IdleCall ==
    [pc |-> "idle", entry |-> "none", op |-> "none", toolName |-> "",
     params |-> Undefined, config |-> Undefined, request |-> NoRequest,
     version |-> 0, statuses |-> <<>>, invoked |-> 0,
     outcome |-> NoOutcome, result |-> NoOutcome]

CallsInit  == calls = [c \in CallIds |-> IdleCall]
RemoteInit == remote = [pageVersion |-> 1, issueIn |-> "source"]

\* The wrapper runs: the transport invokes wrapped handlers, NCalls of them
\* in flight at once.
Init ==
    /\ PgQuiet
    /\ CallsInit
    /\ env = CompleteEnv
    /\ RemoteInit

\* The domain operations run: one invocation, of a wrapped agile operation
\* or of the updatePage callback, against the remote; the environment
\* holds the credentials or lacks the token.
OpsInit ==
    /\ PgQuiet
    /\ CallsInit
    /\ env \in {CompleteEnv, Env("example.atlassian.net", "user@example.com", "")}
    /\ RemoteInit

\* The transport calls a callback built by wrapWithErrorHandling(toolName,
\* handler) whose handler is an agile operation closed over its
\* configuration: the wrapper invokes the handler, which sends its first
\* request.
InvokeWrappedOperation(c, op) ==
    /\ calls[c].pc = "idle"
    /\ calls' = [calls EXCEPT ![c] =
                    [@ EXCEPT !.pc = "awaiting", !.entry = "wrap", !.op = op,
                              !.toolName = op, !.params = PlainObj("args"),
                              !.request = FirstRequest(op), !.invoked = @ + 1]]
    /\ UNCHANGED <<pg, env, remote>>

\* The names two handlers were registered under.
ToolNames == {"myTool", "otherTool"}

\* InvokeWrappedHandler of a wrapper that calls the handler again after a
\* rejection.
InvokeWrappedHandlerRetry(c) ==
    /\ \/ calls[c].pc = "idle"
       \/ calls[c].pc = "settled" /\ calls[c].outcome.k = "rejected"
                                  /\ calls[c].invoked < 2
    /\ calls' = [calls EXCEPT ![c] =
                    [@ EXCEPT !.pc = "pending", !.entry = "wrap", !.op = "handler",
                              !.toolName = "myTool", !.params = PlainObj("args"),
                              !.outcome = NoOutcome, !.invoked = @ + 1]]
    /\ UNCHANGED <<pg, env, remote>>

\* The same with any other asynchronous handler, of which only the outcome
\* is known.
InvokeWrappedHandler(c) ==
    /\ calls[c].pc = "idle"
    /\ \E toolName \in ToolNames :
          calls' = [calls EXCEPT ![c] =
                    [@ EXCEPT !.pc = "pending", !.entry = "wrap", !.op = "handler",
                              !.toolName = toolName, !.params = PlainObj("args"),
                              !.invoked = @ + 1]]
    /\ UNCHANGED <<pg, env, remote>>

\* The handler's promise settles.
HandlerSettles(c, outcome) ==
    /\ calls[c].pc = "pending"
    /\ calls' = [calls EXCEPT ![c] = [@ EXCEPT !.pc = "settled", !.outcome = outcome]]
    /\ UNCHANGED <<pg, env, remote>>

\* The transport calls the updatePage callback: the configuration is
\* looked up; a falsy configuration or a failed lookup ends the call at
\* once, otherwise updatePageHandler sends its first request.
InvokeUpdatePage(c, params, contextConfig) ==
    /\ calls[c].pc = "idle"
    /\ LET config == UpdatePageConfig(contextConfig, env)
           call == [calls[c] EXCEPT !.entry = "updatePage", !.op = "updatePageHandler",
                                    !.toolName = "updatePage", !.params = params]
       IN  calls' = [calls EXCEPT ![c] =
              IF config.k = "rejected"
              THEN [call EXCEPT !.pc = "done",
                       !.result = Fulfilled(UpdatePageCallback(Undefined, config))]
              ELSE IF ~Truthy(config.v)
              THEN [call EXCEPT !.pc = "done", !.config = config.v,
                       !.result = Fulfilled(InvalidConfigResponse)]
              ELSE [call EXCEPT !.pc = "awaiting", !.config = config.v,
                       !.request = FirstRequest("updatePageHandler"),
                       !.invoked = @ + 1]]
    /\ UNCHANGED <<pg, env, remote>>

\* The remote answers the request in flight; the operation runs up to its
\* next request or settles.
RemoteReplies(c, resp) ==
    /\ calls[c].pc = "awaiting"
    /\ resp \in ResponsesTo(calls[c].request, remote)
    /\ remote' = RemoteEffect(calls[c].request, resp, remote)
    /\ LET step == DomainStep(calls[c].op, calls[c].params, calls[c].version,
                              calls[c].request, resp)
           seen == [calls[c] EXCEPT !.statuses = Append(@, resp.status)]
       IN  calls' = [calls EXCEPT ![c] =
              IF step.act = "send"
              THEN [seen EXCEPT !.request = step.request, !.version = step.version]
              ELSE [seen EXCEPT !.pc = "settled", !.request = NoRequest,
                                !.outcome = step.outcome]]
    /\ UNCHANGED <<pg, env>>

\* The request in flight fails in the network: fetch rejects.
FetchFails(c) ==
    /\ calls[c].pc = "awaiting"
    /\ calls' = [calls EXCEPT ![c] =
                    [@ EXCEPT !.pc = "settled", !.request = NoRequest,
                              !.outcome = DomainFetchFailed(calls[c].op)]]
    /\ UNCHANGED <<pg, env, remote>>

\* CallbackReturns of a wrapper that keeps the awaited outcome in a variable
\* shared by all calls: the envelope is built from the outcome of whichever
\* call settled last.
CallbackReturnsShared(c) ==
    /\ calls[c].pc = "settled"
    /\ \E d \in CallIds :
          /\ calls[d].outcome # NoOutcome
          /\ calls' = [calls EXCEPT ![c] =
                    [@ EXCEPT !.pc = "done",
                        !.result = WrapperSettle(calls[c].toolName, calls[d].outcome)]]
    /\ UNCHANGED <<pg, env, remote>>

\* The callback resumes after its await and its own promise settles: the
\* response goes back to the transport.
CallbackReturns(c) ==
    /\ calls[c].pc = "settled"
    /\ calls' = [calls EXCEPT ![c] =
                    [@ EXCEPT !.pc = "done",
                        !.result = IF calls[c].entry = "wrap"
                                   THEN WrapperSettle(calls[c].toolName, calls[c].outcome)
                                   ELSE Fulfilled(UpdatePageCallback(calls[c].config,
                                                                     calls[c].outcome))]]
    /\ UNCHANGED <<pg, env, remote>>

\* A caller looks the configuration up from the environment.
LookupEnvConfig(c) ==
    /\ calls[c].pc = "idle"
    /\ calls' = [calls EXCEPT ![c] =
                    [@ EXCEPT !.pc = "done", !.entry = "envConfig",
                              !.outcome = getAtlassianConfigFromEnv(env)]]
    /\ UNCHANGED <<pg, env, remote>>

\* A caller looks the configuration up from its context or the environment.
LookupConfig(c, context) ==
    /\ calls[c].pc = "idle"
    /\ calls' = [calls EXCEPT ![c] =
                    [@ EXCEPT !.pc = "done", !.entry = "config", !.params = context,
                              !.outcome = getConfigFromContextOrEnv(context, env)]]
    /\ UNCHANGED <<pg, env, remote>>

\* A list resource handler builds its response.
BuildResource(c, args) ==
    /\ calls[c].pc = "idle"
    /\ calls' = [calls EXCEPT ![c] =
                    [@ EXCEPT !.pc = "done", !.entry = "resource", !.params = args,
                              !.result = Fulfilled(createStandardResource(
                                  ResourceUri, args.data, args.dataKey, Undefined,
                                  args.totalCount, args.limit, args.offset,
                                  args.uiUrl))]]
    /\ UNCHANGED <<pg, env, remote>>

Next ==
    \/ \E c \in CallIds : InvokeWrappedHandler(c)
    \/ \E c \in CallIds, o \in HandlerOutcomes : HandlerSettles(c, o)
    \/ \E c \in CallIds : CallbackReturns(c)

Spec == Init /\ [][Next]_vars

OpsNext ==
    \/ \E op \in AgileOps : InvokeWrappedOperation(1, op)
    \/ \E p \in UpdatePageInputs, cc \in ContextConfigs : InvokeUpdatePage(1, p, cc)
    \/ \E resp \in ResponsesTo(calls[1].request, remote) : RemoteReplies(1, resp)
    \/ FetchFails(1)
    \/ CallbackReturns(1)

SpecOps == OpsInit /\ [][OpsNext]_vars

PgNext == ExtractPaging \/ ExtractPagingAgain

\* The pagination runs: extractPagingParams applied to every input, then
\* to its own result.
PagingInit ==
    /\ PgInit
    /\ CallsInit
    /\ env = CompleteEnv
    /\ RemoteInit

SpecPaging == PagingInit /\ [][PgNext]_vars

\* The configuration lookups run, under every environment and context: the
\* two lookups of Config, and the updatePage callback up to the point
\* where it starts updatePageHandler or returns without starting it.
ConfigInit ==
    /\ PgQuiet
    /\ CallsInit
    /\ env \in Envs
    /\ RemoteInit

ConfigNext ==
    \/ LookupEnvConfig(1)
    \/ \E context \in Contexts : LookupConfig(1, context)
    \/ \E context \in Contexts :
          InvokeUpdatePage(1, UpdatePageParams(Undefined, Str("<p>new</p>"), Num(1)),
                           ContextConfigOf(context))

SpecConfig == ConfigInit /\ [][ConfigNext]_vars

\* The page updates run: NCalls callers that have read the page call
\* updatePage with a new title and content and the version they read (the
\* current one or an earlier one), in any order and interleaving, against
\* the one page of the remote.
PageInit ==
    /\ PgQuiet
    /\ CallsInit
    /\ env = CompleteEnv
    /\ RemoteInit

PageNext ==
    \/ \E c \in CallIds, v \in 1..remote.pageVersion :
          InvokeUpdatePage(c, UpdatePageParams(Str("New title"), Str("<p>new</p>"),
                                               Num(v)), ContextConfig)
    \/ \E c \in CallIds :
          \E resp \in ResponsesTo(calls[c].request, remote) : RemoteReplies(c, resp)
    \/ \E c \in CallIds : FetchFails(c)
    \/ \E c \in CallIds : CallbackReturns(c)

SpecPage == PageInit /\ [][PageNext]_vars

\* The list resources run: createStandardResource applied to every
\* combination of arguments.
ResourceInit ==
    /\ PgQuiet
    /\ CallsInit
    /\ env = CompleteEnv
    /\ RemoteInit

ResourceNext ==
    \E data \in ItemLists, dataKey \in DataKeys, totalCount \in Totals,
       limit \in Limits, offset \in Offsets, uiUrl \in UiUrls :
        BuildResource(1, ResourceArgs(data, dataKey, totalCount, limit, offset, uiUrl))

SpecResource == ResourceInit /\ [][ResourceNext]_vars

(***************************************************************************)
(* Properties                                                              *)
(***************************************************************************)
\* The JSON document a response carries as its text.
ResponseDoc(resp) ==
    IF "contents" \in DOMAIN resp THEN resp.contents[1].text ELSE resp.content[1].text
IsEnvelope(doc) == "success" \in DOMAIN doc
Has(doc, key) == key \in DOMAIN doc

DoneWrapped(c) == calls[c].pc = "done" /\ calls[c].entry = "wrap"
WrappedEnvelope(c) == ResponseDoc(calls[c].result.v)

\* C1: the promise of a wrapped handler never rejects: whatever the domain
\* function settles with (a value, an ApiError, an Error, a value that is
\* no Error), the wrapper fulfils with a response envelope.
C1_WrapperNeverRejects ==
    \A c \in CallIds :
        DoneWrapped(c) =>
            /\ calls[c].result.k = "fulfilled"
            /\ IsEnvelope(WrappedEnvelope(c))

\* A handler threw a value that is no Error and the wrapper has returned.
C1_Witness ==
    \E c \in CallIds :
        /\ DoneWrapped(c)
        /\ calls[c].outcome = Rejected(Str("boom"))
        /\ calls[c].result.k = "fulfilled"

\* C2: every invocation of a wrapped handler produces exactly one envelope,
\* none before the domain function has settled, and its success flag is
\* true exactly when the domain function returned without raising.
C2_OneEnvelopeSuccessIffReturned ==
    \A c \in CallIds :
        /\ calls[c].pc # "done" => calls[c].result = NoOutcome
        /\ DoneWrapped(c) =>
              /\ calls[c].result.k = "fulfilled"
              /\ Len(calls[c].result.v.contents) = 1
              /\ IsEnvelope(WrappedEnvelope(c))
              /\ WrappedEnvelope(c).success.b <=> calls[c].outcome.k = "fulfilled"

\* One call has answered a failure and another a success.
C2_Witness ==
    \E c, d \in CallIds :
        /\ DoneWrapped(c) /\ calls[c].outcome.k = "rejected"
        /\ ~WrappedEnvelope(c).success.b
        /\ DoneWrapped(d) /\ calls[d].outcome.k = "fulfilled"
        /\ WrappedEnvelope(d).success.b

\* C3: for every value R the domain function resolves with, the falsy ones
\* included, the envelope has success = true, data = R and the message
\* "<name> executed successfully".  (For R = undefined a JSON document
\* cannot hold the field; nothing is asked of data then.)
C3_SuccessCarriesData ==
    \A c \in CallIds :
        DoneWrapped(c) /\ calls[c].outcome.k = "fulfilled" =>
            /\ WrappedEnvelope(c).success = Bool(TRUE)
            /\ Has(WrappedEnvelope(c), "message")
            /\ WrappedEnvelope(c).message =
                   Str(calls[c].toolName \o " executed successfully")
            /\ calls[c].outcome.v # Undefined =>
                   /\ Has(WrappedEnvelope(c), "data")
                   /\ WrappedEnvelope(c).data = calls[c].outcome.v

\* C4: for a domain function that rejects with an ApiError E the envelope
\* has success = false, message = E.message, and E's code and statusCode
\* when E has them.
C4_DomainErrorCarried ==
    \A c \in CallIds :
        DoneWrapped(c) /\ calls[c].outcome.k = "rejected"
                /\ IsApiError(calls[c].outcome.v) =>
            LET E == calls[c].outcome.v
                doc == WrappedEnvelope(c)
            IN  /\ doc.success = Bool(FALSE)
                /\ Has(doc, "message") /\ doc.message = E.message
                /\ E.code # Undefined => Has(doc, "code") /\ doc.code = E.code
                /\ E.statusCode # Undefined =>
                       Has(doc, "statusCode") /\ doc.statusCode = E.statusCode

\* C5: for a domain function that rejects with a value V that is no
\* ApiError the envelope has success = false, a message equal to V's
\* string form (present also when that form is empty) and no code,
\* statusCode or type.
C5_GenericFailureMessage ==
    \A c \in CallIds :
        DoneWrapped(c) /\ calls[c].outcome.k = "rejected"
                /\ ~IsApiError(calls[c].outcome.v) =>
            LET doc == WrappedEnvelope(c)
            IN  /\ doc.success = Bool(FALSE)
                /\ Has(doc, "message") /\ doc.message = MessageOf(calls[c].outcome.v)
                /\ ~Has(doc, "code") /\ ~Has(doc, "statusCode") /\ ~Has(doc, "type")

\* C6: every response handed to the transport, built by the wrapper or by
\* the updatePage callback, carries an isError flag that negates the
\* envelope's success: true when success is false, false (or, read
\* leniently, absent) when success is true.
C6_IsErrorMirrorsSuccess ==
    \A c \in CallIds :
        calls[c].pc = "done" /\ calls[c].result.k = "fulfilled"
                /\ IsEnvelope(ResponseDoc(calls[c].result.v)) =>
            LET resp == calls[c].result.v
                isError == Has(resp, "isError") /\ resp.isError
            IN  isError <=> ~ResponseDoc(resp).success.b

\* C7: every error status a domain operation receives from the remote is
\* raised as the ApiError of the kind the fixed rule gives that status.
C7_StatusRaisedAsDomainError ==
    \A c \in CallIds :
        /\ calls[c].pc \in {"settled", "done"}
        /\ calls[c].statuses # <<>>
        /\ ~IsOk(calls[c].statuses[Len(calls[c].statuses)])
        => /\ calls[c].outcome.k = "rejected"
           /\ IsApiError(calls[c].outcome.v)
           /\ calls[c].outcome.v.type =
                  ApiErrorTypeOf(calls[c].statuses[Len(calls[c].statuses)])

\* limit is an integer > 0 and offset an integer >= 0.
WellFormedPaging(limit, offset) ==
    /\ IsInteger(limit) /\ limit.tenths > 0
    /\ IsInteger(offset) /\ offset.tenths >= 0

\* C8, as claimed: for any raw params and any defaults the result is a pair
\* with limit an integer > 0 and offset an integer >= 0.
C8_TotalForAnyDefaults ==
    pg.pc \in {"once", "twice"} => WellFormedPaging(pg.first.limit, pg.first.offset)

\* C8, amended: for any raw params, and defaults that are themselves well
\* formed (defaultLimit an integer > 0, defaultOffset an integer >= 0), the
\* result is a pair with limit an integer > 0 and offset an integer >= 0.
C8_TotalForWellFormedDefaults ==
    pg.pc \in {"once", "twice"}
            /\ WellFormedPaging(pg.defaultLimit, pg.defaultOffset) =>
        WellFormedPaging(pg.first.limit, pg.first.offset)

\* A negative limit in an array and a negative offset were degraded to the
\* defaults.
C8_Witness ==
    /\ pg.pc = "once"
    /\ pg.params = Obj(Arr(<<Chars(<<"-", "5">>)>>), Chars(<<"-", "3">>))
    /\ pg.defaultLimit = Num(DeclaredDefaultLimit) /\ pg.defaultOffset = Num(10)
    /\ pg.first = Obj(Num(DeclaredDefaultLimit), Num(10))

\* C9: a default is kept only when the parameter is absent, does not parse
\* or is out of range: a limit (scalar or first array element) that parses
\* to n > 0 gives limit = n, an offset that parses to m >= 0 (the number 0
\* included) gives offset = m, whatever the defaults.  Stated for
\* well-formed defaults, where the claim fails too.
C9_ParsedValueWins ==
    pg.pc \in {"once", "twice"} /\ pg.params.t = "obj"
            /\ WellFormedPaging(pg.defaultLimit, pg.defaultOffset) =>
        LET n == ParseInt(FirstIfArray(pg.params.limit))
            m == ParseInt(FirstIfArray(pg.params.offset))
        IN  /\ pg.params.limit # Undefined /\ Greater(n, Num(0)) => pg.first.limit = n
            /\ pg.params.offset # Undefined /\ GreaterEq(m, Num(0)) =>
                   pg.first.offset = m

\* C10: feeding the result back in, with the same defaults, gives the same
\* result.  Stated for well-formed defaults, where the claim fails too.
C10_Idempotent ==
    pg.pc = "twice" /\ WellFormedPaging(pg.defaultLimit, pg.defaultOffset) =>
        pg.second = pg.first


\* The positions of a call of a wrapped handler, in order.
WrapperStep(from, to) ==
    \/ from = "idle" /\ to = "pending"
    \/ from = "pending" /\ to = "settled"
    \/ from = "settled" /\ to = "done"
    \/ from = to

\* C11: each call of a wrapped handler goes invoked -> settled -> envelope:
\* the domain function is invoked once per call and never again, the
\* envelope exists only after that invocation has settled, and it is the
\* success envelope after a fulfilment, the failure envelope after a
\* rejection.
C11_InvokedOnceThenEnvelope ==
    /\ [](\A c \in CallIds :
            /\ calls[c].invoked = (IF calls[c].pc = "idle" THEN 0 ELSE 1)
            /\ calls[c].pc \in {"idle", "pending"} => calls[c].outcome = NoOutcome
            /\ calls[c].pc \in {"settled", "done"} => calls[c].outcome # NoOutcome
            /\ calls[c].result # NoOutcome =>
                  /\ calls[c].pc = "done"
                  /\ calls[c].result.k = "fulfilled"
                  /\ WrappedEnvelope(c).success.b <=> calls[c].outcome.k = "fulfilled")
    /\ [][\A c \in CallIds :
            /\ WrapperStep(calls[c].pc, calls'[c].pc)
            /\ calls'[c].invoked >= calls[c].invoked
            /\ calls[c].outcome # NoOutcome => calls'[c].outcome = calls[c].outcome
            /\ calls[c].result # NoOutcome => calls'[c].result = calls[c].result]_vars

\* A domain function was invoked once, rejected with a Domain Error, and
\* the failure envelope was produced.
C11_Witness ==
    \E c \in CallIds :
        /\ DoneWrapped(c)
        /\ calls[c].invoked = 1
        /\ calls[c].outcome.k = "rejected" /\ IsApiError(calls[c].outcome.v)
        /\ WrappedEnvelope(c).success = Bool(FALSE)


\* C12: calls in flight together do not affect each other: under every
\* interleaving each call's envelope is the one the wrapper builds from
\* that call's own tool name and its own domain function's outcome, two
\* calls of the same tool with the same outcome answer the same, and a step
\* of one call leaves every other call as it was.
C12_CallsIndependent ==
    /\ [](\A c \in CallIds :
            DoneWrapped(c) =>
                /\ calls[c].result = WrapperSettle(calls[c].toolName, calls[c].outcome)
                /\ \A d \in CallIds :
                      DoneWrapped(d) /\ calls[d].toolName = calls[c].toolName
                              /\ calls[d].outcome = calls[c].outcome =>
                          calls[d].result = calls[c].result)
    /\ [][\A c \in CallIds :
            calls'[c] # calls[c] =>
                \A d \in CallIds \ {c} : calls'[d] = calls[d]]_vars

\* Two calls were in flight together, one of each tool; the first settled
\* with a failure, the second with a success, and each has answered with
\* its own envelope.
C12_Witness ==
    \E c, d \in CallIds :
        /\ c # d
        /\ DoneWrapped(c) /\ DoneWrapped(d)
        /\ calls[c].toolName = "myTool" /\ calls[d].toolName = "otherTool"
        /\ calls[c].outcome = Rejected(ErrorObj("Error", Str("boom")))
        /\ calls[d].outcome = Fulfilled(Num(7))
        /\ WrappedEnvelope(c) = [success |-> Bool(FALSE), message |-> Str("boom")]
        /\ WrappedEnvelope(d).data = Num(7)


\* A Configuration whose base URL, account email and API token are all
\* present.
CompleteConfig(config) ==
    /\ config.t = "config"
    /\ config.baseUrl # "" /\ config.email # "" /\ config.apiToken # ""

\* C13: a configuration lookup (getAtlassianConfigFromEnv, or
\* getConfigFromContextOrEnv whatever the context holds) returns a complete
\* Configuration or raises the configuration-missing error, and the
\* updatePage callback starts updatePageHandler with a complete
\* Configuration only.
C13_ConfigCompleteOrMissing ==
    \A c \in CallIds :
        /\ calls[c].entry \in {"envConfig", "config"} /\ calls[c].pc = "done" =>
              \/ calls[c].outcome = Rejected(MissingCredentials)
              \/ calls[c].outcome.k = "fulfilled" /\ CompleteConfig(calls[c].outcome.v)
        /\ calls[c].entry = "updatePage" /\ calls[c].invoked > 0 =>
              CompleteConfig(calls[c].config)


\* C14: updatePage guards the update with the version the caller supplied:
\* an update succeeds only over the page version the caller knew; when the
\* page has moved on since (another update was applied in between), the
\* update fails and the newer page is not overwritten.
C14_StaleUpdateFails ==
    \A c \in CallIds :
        /\ calls[c].entry = "updatePage"
        /\ calls[c].pc \in {"settled", "done"}
        /\ calls[c].outcome.k = "fulfilled"
        => calls[c].version - 1 <= calls[c].params.version.tenths \div 10


\* C15: for the site name in either documented form, the bare host
\* example.atlassian.net or the full URL https://example.atlassian.net,
\* getAtlassianConfigFromEnv returns the baseUrl
\* https://example.atlassian.net, with one scheme prefix.
C15_OneSchemePrefix ==
    \A c \in CallIds :
        /\ calls[c].entry = "envConfig" /\ calls[c].pc = "done"
        /\ calls[c].outcome.k = "fulfilled"
        /\ env.ATLASSIAN_SITE_NAME \in {"example.atlassian.net",
                                        "https://example.atlassian.net"}
        => calls[c].outcome.v.baseUrl = "https://example.atlassian.net"


\* The number of requests an agile operation sends when none fails.
RequestCount(op) ==
    IF op \in {"moveIssuesBetweenSprints", "configureBoardColumns"} THEN 2 ELSE 1

\* C16: an agile operation whose requests were all sent and all answered
\* with an OK status resolves, with the parsed document or, when the final
\* body is empty or is not JSON, with the generic success marker; it does
\* not reject.
C16_OkResponsesResolve ==
    \A c \in CallIds :
        /\ calls[c].entry = "wrap" /\ calls[c].op \in AgileOps
        /\ calls[c].pc \in {"settled", "done"}
        /\ Len(calls[c].statuses) = RequestCount(calls[c].op)
        /\ \A i \in 1..Len(calls[c].statuses) : IsOk(calls[c].statuses[i])
        => /\ calls[c].outcome.k = "fulfilled"
           /\ calls[c].outcome.v \in {SuccessMarker, IssueJson}


\* C17: every response built by createStandardResource holds, under the
\* key metadata, the Standard Metadata built from (totalCount, limit,
\* offset, uri, uiUrl) and, under the key dataKey, the item list, whatever
\* the arguments.
C17_MetadataAndItemsPresent ==
    \A c \in CallIds :
        calls[c].entry = "resource" /\ calls[c].pc = "done" =>
            LET args == calls[c].params
                doc == ResponseDoc(calls[c].result.v)
            IN  /\ Has(doc, "metadata")
                /\ doc["metadata"] = createStandardMetadata(args.totalCount, args.limit,
                                          args.offset, ResourceUri, args.uiUrl)
                /\ Has(doc, args.dataKey)
                /\ doc[args.dataKey] = args.data


\* C18: moveIssuesBetweenSprints is all-or-nothing: the add request is sent
\* only after the remove request returned OK, and when the operation has
\* rejected the issues are not left out of both sprints (removed from the
\* source sprint without being in the target sprint).
C18_MoveAllOrNothing ==
    \A c \in CallIds :
        calls[c].op = "moveIssuesBetweenSprints" =>
            /\ calls[c].request.kind = "sprintAdd" =>
                  Len(calls[c].statuses) = 1 /\ IsOk(calls[c].statuses[1])
            /\ calls[c].pc \in {"settled", "done"} /\ calls[c].outcome.k = "rejected" =>
                  remote.issueIn \in {"source", "target"}

=============================================================================
